---------------------------- MODULE Spec2Model ----------------------------
(***************************************************************************)
(* substack-to-kindle: scrape a Substack article (or read a local PDF),    *)
(* convert it to EPUB/AZW3/MOBI and mail it to a Kindle address.           *)
(*                                                                         *)
(* Go strings are modelled as sequences of bytes; a byte is written as a   *)
(* one-character string ("a", "/", " ") or, for the two bytes of the UTF-8 *)
(* encoding of U+00E9, as "C3" and "A9".                                   *)
(***************************************************************************)
EXTENDS Integers, Sequences, FiniteSets, TLC

VARIABLES
    sanIn,      \* sanitizeFilename: the argument
    sanOut,     \* sanitizeFilename: the value returned
    sanPdfOut,  \* the value pdfconverter's sanitizeFilename returned for it
    sanDone,    \* sanitizeFilename: whether the calls have returned
    entry,      \* the entry point exercised: a main, or a package function
    pc,         \* where the run stands
    args,       \* the flags (typed: -format as typed), or the call's arguments
    dotenv,     \* the process environment (.env)
    served,     \* what the GET of the article was answered with
    scraped,    \* the record main's article points to, or the one handed in
    converted,  \* main's result: the conversion result
    failure,    \* the error the last step returned
    fs,         \* the file system
    trace,      \* the calls made to the outside world, in order
    stages      \* the stages of the run entered so far, in order

sanVars == <<sanIn, sanOut, sanPdfOut, sanDone>>

runVars ==
    <<entry, pc, args, dotenv, served, scraped, converted, failure, fs, trace,
      stages>>

vars == <<sanVars, runVars>>

----------------------------------------------------------------------------
(* Bounds of the model *)

\* longest run of arbitrary characters put before and after the filler of a name
MaxAffix == 2

\* most image references of an article handed to the converter
MaxImages == 2

----------------------------------------------------------------------------
(* Strings *)

\* len(result) > 100, result[:100]
MaxFilenameLen == 100

\* the invalid list of sanitizeFilename, in the order of the source
InvalidChars == <<"/", "\\", ":", "*", "?", "\"", "<", ">", "|">>

Range(s) == {s[i] : i \in 1..Len(s)}

\* unicode.IsSpace on the bytes the model uses
IsSpaceByte(b) == b \in {" ", "\t"}

\* strings.ReplaceAll(s, old, new) for a one-byte old and a one-byte new
ReplaceAll(s, old, new) == [i \in 1..Len(s) |-> IF s[i] = old THEN new ELSE s[i]]

RECURSIVE TrimLeft(_)
TrimLeft(s) ==
    IF s # <<>> /\ IsSpaceByte(Head(s)) THEN TrimLeft(Tail(s)) ELSE s

RECURSIVE TrimRight(_)
TrimRight(s) ==
    IF s # <<>> /\ IsSpaceByte(s[Len(s)])
    THEN TrimRight(SubSeq(s, 1, Len(s) - 1))
    ELSE s

\* strings.TrimSpace
TrimSpace(s) == TrimRight(TrimLeft(s))

\* the loop over the invalid list: result = strings.ReplaceAll(result, char, "_")
RECURSIVE ReplaceEach(_, _)
ReplaceEach(s, chars) ==
    IF chars = <<>> THEN s
    ELSE ReplaceEach(ReplaceAll(s, Head(chars), "_"), Tail(chars))

\* result[:100] when len(result) > 100
Truncate(s) == IF Len(s) > MaxFilenameLen THEN SubSeq(s, 1, MaxFilenameLen) ELSE s

\* a slip that forgets the length limit
sanitizeFilenameNoLimit(name) == TrimSpace(ReplaceEach(name, InvalidChars))

\* converter.sanitizeFilename
sanitizeFilename(name) == Truncate(TrimSpace(ReplaceEach(name, InvalidChars)))

----------------------------------------------------------------------------
(* More of package strings and path/filepath *)

\* strings.ReplaceAll(s, old, new) for a non-empty old
RECURSIVE ReplaceAllStr(_, _, _)
ReplaceAllStr(s, old, new) ==
    IF Len(s) < Len(old) \/ old = <<>> THEN s
    ELSE IF SubSeq(s, 1, Len(old)) = old
         THEN new \o ReplaceAllStr(SubSeq(s, Len(old) + 1, Len(s)), old, new)
         ELSE <<Head(s)>> \o ReplaceAllStr(Tail(s), old, new)

HasSuffix(s, suf) ==
    /\ Len(s) >= Len(suf)
    /\ SubSeq(s, Len(s) - Len(suf) + 1, Len(s)) = suf

\* strings.TrimSuffix
TrimSuffix(s, suf) ==
    IF HasSuffix(s, suf) THEN SubSeq(s, 1, Len(s) - Len(suf)) ELSE s

\* strings.Contains(s, c) for a one-byte c
ContainsByte(s, c) == \E i \in 1..Len(s) : s[i] = c

UpperToLower ==
    [c \in {"A", "B", "D", "E", "F", "I", "M", "O", "P", "U", "W", "Z"} |->
        CASE c = "A" -> "a" [] c = "B" -> "b" [] c = "D" -> "d" [] c = "E" -> "e"
          [] c = "F" -> "f" [] c = "I" -> "i" [] c = "M" -> "m" [] c = "O" -> "o"
          [] c = "P" -> "p" [] c = "U" -> "u" [] c = "W" -> "w" [] c = "Z" -> "z"]

\* strings.ToLower on the letters the model uses
ToLower(s) ==
    [i \in 1..Len(s) |-> IF s[i] \in DOMAIN UpperToLower THEN UpperToLower[s[i]] ELSE s[i]]

RECURSIVE StripTrailingSlashes(_)
StripTrailingSlashes(s) ==
    IF s # <<>> /\ s[Len(s)] = "/"
    THEN StripTrailingSlashes(SubSeq(s, 1, Len(s) - 1))
    ELSE s

RECURSIVE AfterLastSlash(_)
AfterLastSlash(s) ==
    IF ContainsByte(s, "/") THEN AfterLastSlash(Tail(s)) ELSE s

\* filepath.Base of a slash-separated string
PathBase(s) ==
    IF s = <<>> THEN <<".">>
    ELSE LET t == StripTrailingSlashes(s)
         IN  IF t = <<>> THEN <<"/">> ELSE AfterLastSlash(t)

\* A file path: the directory it lies in and its name in that directory.
\* filepath.Join(dir, name) for a name without a separator.
Join(dir, name) == [dir |-> dir, name |-> name]

\* Go's empty string as a path
NoPath == [dir |-> "", name |-> <<>>]

\* filepath.Base and filepath.Dir of a joined path
Base(p) == p.name
Dir(p) == p.dir

----------------------------------------------------------------------------
(* The file system and the outside world                                    *)
(*                                                                          *)
(* A disk maps the paths that exist to what they hold.  A log is the        *)
(* sequence of calls made to the outside: HTTP requests, subprocesses, the  *)
(* mail relay, and the construction steps the claims speak about.           *)

EmptyDisk == [p \in {} |-> [kind |-> "none"]]

Exists(disk, p) == p \in DOMAIN disk

\* os.Create / a library writing a file: the path now holds data
WriteFile(disk, p, data) ==
    [q \in DOMAIN disk \cup {p} |-> IF q = p THEN data ELSE disk[q]]

\* os.Remove
Remove(disk, p) == [q \in DOMAIN disk \ {p} |-> disk[q]]

\* the path of a directory itself
DirPath(dir) == Join(dir, <<>>)

\* os.MkdirTemp("", pattern): a directory that did not exist before
MkdirTemp(disk, dir) == WriteFile(disk, DirPath(dir), [kind |-> "dir"])

Event(op, arg) == [op |-> op, arg |-> arg]

CountOp(log, op) == Cardinality({i \in 1..Len(log) : log[i].op = op})

----------------------------------------------------------------------------
(* package converter (src/README.md holds its source)                       *)
(*                                                                          *)
(* A function that asks the outside world (a download, a subprocess, a      *)
(* write to the disk) is an operator giving the set of its possible         *)
(* outcomes: what it returns, the disk it leaves and the calls it logged.   *)

FormatEPUB == <<"e", "p", "u", "b">>
FormatAZW3 == <<"a", "z", "w", "3">>
FormatMOBI == <<"m", "o", "b", "i">>

\* a nil *ConversionResult
NoResult == [FilePath |-> NoPath, Title |-> <<"<nil>">>, Author |-> <<"<nil>">>]

\* a nil error
NoError == ""

\* exec.LookPath("ebook-convert"): the tool is installed or it is not
isEbookConvertAvailable == BOOLEAN

\* how an HTTP request for an image can end: status 200, or anything else
DownloadOutcomes == {"ok", "fail"}

\* the name downloadImage gives the file of the n-th download of a call:
\* filepath.Base(url), or image_<UnixNano>.jpg when that has no dot
ImageFilename(url, n) ==
    LET filename == PathBase(url)
    IN  IF filename = <<>> \/ ~ContainsByte(filename, ".")
        THEN <<"i", "m", "a", "g", "e", "_", ToString(n), ".", "j", "p", "g">>
        ELSE filename

\* downloadImage(url, tempDir), the n-th download of the call.  os.Create
\* fails on a name that is the directory itself.
downloadImage(url, tempDir, n, disk) ==
    LET filename == ImageFilename(url, n)
        imgPath  == Join(tempDir, filename)
        done(ok) == <<Event("downloadImage", [url |-> url, ok |-> ok])>>
    IN  {IF outcome # "ok" \/ filename \in {<<".">>, <<".", ".">>}
         THEN [err |-> TRUE, path |-> NoPath, disk |-> disk, log |-> done(FALSE)]
         ELSE [err  |-> FALSE,
               path |-> imgPath,
               disk |-> WriteFile(disk, imgPath, [kind |-> "image", from |-> url]),
               log  |-> done(TRUE)] :
            outcome \in DownloadOutcomes}

\* epub.AddImage(source, internalFilename) of go-epub: the internal file name
\* must be unused among the book's images, else FilenameAlreadyUsedError
AddImageFails(images, imgFilename) == imgFilename \in DOMAIN images

\* the internal path AddImage returns
InternalImagePath(imgFilename) ==
    <<".", ".", "/", "i", "m", "a", "g", "e", "s", "/">> \o imgFilename

MapPut(m, k, v) == [x \in DOMAIN m \cup {k} |-> IF x = k THEN v ELSE m[x]]

EmptyMap == [x \in {} |-> <<>>]

\* one turn of createEPUB's loop over article.ImageURLs, d the download's
\* outcome: acc holds the disk, the book's images (internal name -> source
\* path), the imageMap (url -> internal path) and the log
EpubImageStep(acc, url, d) ==
    IF d.err
    THEN [acc EXCEPT !.log = @ \o d.log]
    ELSE IF AddImageFails(acc.images, Base(d.path))
    THEN [acc EXCEPT !.log = @ \o d.log, !.disk = d.disk]
    ELSE [disk     |-> d.disk,
          images   |-> MapPut(acc.images, Base(d.path), d.path),
          imageMap |-> MapPut(acc.imageMap, url, InternalImagePath(Base(d.path))),
          log      |-> acc.log \o d.log]

\* createEPUB's loop, from the i-th reference on
RECURSIVE EpubImageLoop(_, _, _, _)
EpubImageLoop(urls, i, tempDir, acc) ==
    IF i > Len(urls) THEN {acc}
    ELSE UNION {EpubImageLoop(urls, i + 1, tempDir, EpubImageStep(acc, urls[i], d)) :
                    d \in downloadImage(urls[i], tempDir, i, acc.disk)}

\* one turn of createMobiFormat's loop: imageMap is url -> path of the file
MobiImageStep(acc, url, d) ==
    IF d.err
    THEN [acc EXCEPT !.log = @ \o d.log]
    ELSE [disk     |-> d.disk,
          imageMap |-> MapPut(acc.imageMap, url, d.path),
          log      |-> acc.log \o d.log]

\* createMobiFormat's loop, from the i-th reference on
RECURSIVE MobiImageLoop(_, _, _, _)
MobiImageLoop(urls, i, tempDir, acc) ==
    IF i > Len(urls) THEN {acc}
    ELSE UNION {MobiImageLoop(urls, i + 1, tempDir, MobiImageStep(acc, urls[i], d)) :
                    d \in downloadImage(urls[i], tempDir, i, acc.disk)}

\* the orders in which a range loop can visit the keys of a map
Perms(S) ==
    {f \in [1..Cardinality(S) -> S] : \A i, j \in 1..Cardinality(S) : f[i] = f[j] => i = j}

\* content = strings.ReplaceAll(content, origURL, path), key after key
RECURSIVE RewriteContent(_, _, _)
RewriteContent(content, imageMap, keys) ==
    IF keys = <<>> THEN content
    ELSE RewriteContent(ReplaceAllStr(content, Head(keys), imageMap[Head(keys)]),
                        imageMap, Tail(keys))

\* for origURL, path := range imageMap { ... }: Go leaves the order open
Rewritten(content, imageMap) ==
    {RewriteContent(content, imageMap, keys) : keys \in Perms(DOMAIN imageMap)}

\* a slip that names the file after the title and author as they are
OutputStemRaw(article) == article.Title \o <<" ", "-", " ">> \o article.Author

\* "%s - %s" of the sanitized title and author
OutputStem(article) ==
    sanitizeFilename(article.Title) \o <<" ", "-", " ">>
        \o sanitizeFilename(article.Author)

Ext(format) == <<".">> \o format

\* os.CreateTemp(tempDir, "style-*.css")
CssName == <<"s", "t", "y", "l", "e", "-", "1", ".", "c", "s", "s">>

\* a slip that rewrites the body of the record itself
RewroteInPlace(article, content) == [article EXCEPT !.Content = content]

\* the record the caller's pointer leads to, after content := article.Content
\* was rewritten: the rewriting assigned to the local variable only
Rewrote(article, content) == article

\* createEPUB after its loop: the rewriting, the stylesheet, the section,
\* e.Write(epubPath), which reads each image from its source path
EpubWrite(article, tempDir, loop) ==
    LET withCss  == WriteFile(loop.disk, Join(tempDir, CssName), [kind |-> "css"])
        epubPath == Join(tempDir, OutputStem(article) \o Ext(FormatEPUB))
        embedded == [n \in DOMAIN loop.images |-> withCss[loop.images[n]]]
        rewritten == Rewritten(article.Content, loop.imageMap)
    IN  {[path |-> NoPath, err |-> "failed to create CSS file",
          article |-> Rewrote(article, content),
          disk |-> loop.disk, log |-> loop.log] : content \in rewritten}
        \cup
        {[path |-> NoPath, err |-> "failed to write EPUB",
          article |-> Rewrote(article, content),
          disk |-> withCss, log |-> loop.log] : content \in rewritten}
        \cup
        {[path |-> epubPath, err |-> NoError,
          article |-> Rewrote(article, content),
          disk |-> WriteFile(withCss, epubPath,
                      [kind   |-> "book",
                       format |-> FormatEPUB,
                       title  |-> article.Title,
                       author |-> article.Author,
                       images |-> embedded,
                       body   |-> content]),
          log  |-> loop.log] :
            content \in rewritten}

\* createEPUB(article, tempDir)
createEPUB(article, tempDir, disk) ==
    UNION {EpubWrite(article, tempDir, loop) :
            loop \in EpubImageLoop(article.ImageURLs, 1, tempDir,
                        [disk |-> disk, images |-> EmptyMap, imageMap |-> EmptyMap,
                         log |-> <<Event("createEPUB", tempDir)>>])}

\* convertToFormat(epubPath, format): ebook-convert epubPath outputPath exits
\* with status zero or it does not
convertToFormat(epubPath, format, disk) ==
    LET outputPath == Join(Dir(epubPath),
                           TrimSuffix(Base(epubPath), Ext(FormatEPUB)) \o Ext(format))
        run(exit) == <<Event("ebook-convert", [out |-> outputPath, exit |-> exit])>>
    IN  {[path |-> NoPath, err |-> "failed to convert", disk |-> disk, log |-> run(1)],
         [path |-> outputPath, err |-> NoError,
          disk |-> WriteFile(disk, outputPath,
                      [kind   |-> "book",
                       format |-> format,
                       title  |-> disk[epubPath].title,
                       author |-> disk[epubPath].author,
                       by     |-> "ebook-convert"]),
          log  |-> run(0)]}

\* createMobiFormat after its loop: the book is realized and written
MobiWrite(article, outputPath, format, loop) ==
    LET rewritten == Rewritten(article.Content,
                        [u \in DOMAIN loop.imageMap |-> Base(loop.imageMap[u])])
    IN
    {[err |-> "failed to create output file",
      article |-> Rewrote(article, content),
      disk |-> loop.disk, log |-> loop.log] : content \in rewritten}
    \cup
    {[err |-> NoError,
      article |-> Rewrote(article, content),
      disk |-> WriteFile(loop.disk, outputPath,
                  [kind   |-> "book",
                   format |-> format,
                   title  |-> article.Title,
                   author |-> article.Author,
                   body   |-> content,
                   by     |-> "direct"]),
      log |-> loop.log] :
        content \in rewritten}

\* createMobiFormat(article, outputPath, format), reached through createAZW3
\* and createMOBI
createMobiFormat(article, outputPath, format, disk) ==
    UNION {MobiWrite(article, outputPath, format, loop) :
            loop \in MobiImageLoop(article.ImageURLs, 1, Dir(outputPath),
                        [disk |-> disk, imageMap |-> EmptyMap,
                         log |-> <<Event("createMobiFormat", outputPath)>>])}

\* a call's outcome: what it returns, and the disk and the log it leaves
Outcome(result, err, disk, log) ==
    [result |-> result, err |-> err, disk |-> disk, log |-> log]

\* the outcome of a call given a pointer to an article: the record the
\* pointer leads to when the call returns is part of it
ArticleOutcome(article, result, err, disk, log) ==
    [article |-> article, result |-> result, err |-> err, disk |-> disk, log |-> log]

Result(path, article) ==
    [FilePath |-> path, Title |-> article.Title, Author |-> article.Author]

\* os.MkdirTemp("", "substack-kindle-*")
ConverterTempDir == "substack-kindle-1"

\* the direct construction of ConvertArticle's AZW3 and MOBI branches
DirectBranch(article, format, tempDir, disk, log) ==
    LET outPath == Join(tempDir, OutputStem(article) \o Ext(format))
    IN  {IF m.err # NoError
         THEN ArticleOutcome(m.article, NoResult, "failed to create AZW3/MOBI",
                             m.disk, log \o m.log)
         ELSE ArticleOutcome(m.article, Result(outPath, m.article), NoError,
                             m.disk, log \o m.log) :
            m \in createMobiFormat(article, outPath, format, disk)}

\* what ebook-convert's outcome c makes of the EPUB e: the intermediate EPUB is
\* removed only when ebook-convert succeeded
CalibreResult(e, c, log) ==
    IF c.err # NoError
    THEN [outputPath |-> NoPath, err |-> NoError, article |-> e.article,
          disk |-> c.disk, log |-> log \o e.log \o c.log]
    ELSE [outputPath |-> c.path, err |-> NoError, article |-> e.article,
          disk |-> Remove(c.disk, e.path),
          log |-> log \o e.log \o c.log \o <<Event("Remove", e.path)>>]

\* if isEbookConvertAvailable() { ... }: the EPUB, then ebook-convert
CalibreBranch(article, format, tempDir, disk, log) ==
    UNION {IF e.err # NoError
           THEN {[outputPath |-> NoPath, err |-> "failed to create EPUB",
                  article |-> e.article, disk |-> e.disk, log |-> log \o e.log]}
           ELSE {CalibreResult(e, c, log) : c \in convertToFormat(e.path, format, e.disk)} :
            e \in createEPUB(article, tempDir, disk)}

\* a slip that never falls back to direct construction
UseDirectNever(outputPath) == FALSE

\* if outputPath == "": Calibre was not available or its conversion failed
UseDirect(outputPath) == outputPath = NoPath

\* the AZW3 and MOBI branches after the attempt with Calibre
AfterCalibre(format, tempDir, pre) ==
    IF pre.err # NoError
    THEN {ArticleOutcome(pre.article, NoResult, pre.err, pre.disk, pre.log)}
    ELSE IF UseDirect(pre.outputPath)
    THEN DirectBranch(pre.article, format, tempDir, pre.disk, pre.log)
    ELSE {ArticleOutcome(pre.article, Result(pre.outputPath, pre.article), NoError,
                         pre.disk, pre.log)}

\* ConvertArticle's AZW3 and MOBI branches (the two differ in the format only)
KindleBranch(article, format, tempDir, disk, log) ==
    UNION {IF avail
           THEN UNION {AfterCalibre(format, tempDir, pre) :
                        pre \in CalibreBranch(article, format, tempDir, disk,
                                              Append(log, Event("LookPath", avail)))}
           ELSE AfterCalibre(format, tempDir,
                    [outputPath |-> NoPath, err |-> NoError,
                     article |-> article, disk |-> disk,
                     log |-> Append(log, Event("LookPath", avail))]) :
            avail \in isEbookConvertAvailable}

\* ConvertArticle's EPUB branch
EpubBranch(article, tempDir, disk, log) ==
    {IF e.err # NoError
     THEN ArticleOutcome(e.article, NoResult, "failed to create EPUB",
                         e.disk, log \o e.log)
     ELSE ArticleOutcome(e.article, Result(e.path, e.article), NoError,
                         e.disk, log \o e.log) :
        e \in createEPUB(article, tempDir, disk)}

\* ConvertArticle(article, format)
ConvertArticle(article, format, disk) ==
    LET tempDir == ConverterTempDir
        call == <<Event("ConvertArticle", format)>>
        made == MkdirTemp(disk, tempDir)
        log  == Append(call, Event("MkdirTemp", tempDir))
    IN  {ArticleOutcome(article, NoResult, "failed to create temp directory", disk, call)}
        \cup
        (IF format = FormatEPUB THEN EpubBranch(article, tempDir, made, log)
         ELSE IF format = FormatAZW3 \/ format = FormatMOBI
         THEN KindleBranch(article, format, tempDir, made, log)
         ELSE {ArticleOutcome(article, NoResult, "unsupported output format",
                              made, log)})

\* ConvertToEPUB, ConvertToAZW3, ConvertToMOBI
ConvertTo(format, article, disk) == ConvertArticle(article, format, disk)

----------------------------------------------------------------------------
(* package scraper (src/unnamed/part_000, lines 1 to 113)                   *)
(*                                                                          *)
(* A page is what the parsed document answers to the selectors the scraper  *)
(* asks: the text of h1.post-title and of the first h1, the text of the     *)
(* four author selectors, the author meta tag, the datetime attribute, the  *)
(* container the content selector finds first, and the src attributes of    *)
(* the img elements in it.                                                  *)

\* a nil *Article
NoArticle ==
    [Title |-> <<"<nil>">>, Author |-> <<"<nil>">>, PublishedAt |-> "nil",
     Content |-> <<>>, URL |-> <<>>, ImageURLs |-> <<>>]

\* the text after the first occurrence of sep, <<>> when there is none
RECURSIVE AfterFirst(_, _)
AfterFirst(s, sep) ==
    IF Len(s) < Len(sep) THEN <<>>
    ELSE IF SubSeq(s, 1, Len(sep)) = sep THEN SubSeq(s, Len(sep) + 1, Len(s))
    ELSE AfterFirst(Tail(s), sep)

\* strings.Split(s, sep)[0]: the text before the first occurrence of sep
RECURSIVE BeforeFirst(_, _)
BeforeFirst(s, sep) ==
    IF Len(s) < Len(sep) THEN s
    ELSE IF SubSeq(s, 1, Len(sep)) = sep THEN <<>>
    ELSE <<Head(s)>> \o BeforeFirst(Tail(s), sep)

\* whether strings.Split(s, sep) has more than one part
HasSep(s, sep) == BeforeFirst(s, sep) # s

\* a slip that takes no author from the URL
AuthorFromURLNone(url) == <<>>

\* the author taken from the URL when every selector missed
AuthorFromURL(url) ==
    IF HasSep(url, <<"/", "/">>)
    THEN LET part1 == BeforeFirst(AfterFirst(url, <<"/", "/">>), <<"/", "/">>)
         IN  BeforeFirst(BeforeFirst(part1, <<".">>), <<"/">>)
    ELSE <<>>

\* the loop over authorSelectors: the first selector, in order, with a value
RECURSIVE AuthorFromSelectors(_, _)
AuthorFromSelectors(page, i) ==
    IF i > Len(page.authors)
    THEN \* meta[name='author']
         IF page.meta.exists /\ page.meta.content # <<>>
         THEN TrimSpace(page.meta.content)
         ELSE <<>>
    ELSE IF TrimSpace(page.authors[i]) # <<>>
    THEN TrimSpace(page.authors[i])
    ELSE AuthorFromSelectors(page, i + 1)

\* the markup of a container holding the given images
RECURSIVE BodyMarkup(_)
BodyMarkup(imgs) ==
    IF imgs = <<>> THEN <<"t">>
    ELSE <<"<">> \o Head(imgs) \o <<">">> \o BodyMarkup(Tail(imgs))

\* doc.Find(contentSelector).Html(): the inner markup of the first container
\* found; the empty string and no error when none is found
ContentHTML(page) ==
    IF page.container = "none" THEN <<>> ELSE page.html

\* doc.Find(contentSelector + " img"): of the four selectors joined by commas
\* only the last, .body, is extended by " img"; an img needs a non-empty src
ContentImages(page) ==
    IF page.container \in {"body", "available-content>body"}
    THEN SelectSeq(page.imgs, LAMBDA src : src # <<>>)
    ELSE <<>>

\* a slip that treats a page without a content container as an error
HtmlFailsWhenEmpty(page) == page.container = "none"

\* contentHTML, err := doc.Find(contentSelector).Html(); err != nil: rendering
\* into a buffer does not fail, and an empty selection renders nothing
HtmlFails(page) == FALSE

\* a slip that takes every status for good
BadStatusNever(status) == FALSE

\* resp.StatusCode != http.StatusOK
BadStatus(status) == status # 200

\* ScrapeSubstack(url): http is how the one GET ends, page what it serves
ScrapeSubstack(url, http, page) ==
    LET get == <<Event("GET", url)>>
        title == IF TrimSpace(page.postTitle) # <<>>
                 THEN TrimSpace(page.postTitle)
                 ELSE TrimSpace(page.firstH1)
        found == AuthorFromSelectors(page, 1)
        author == IF found # <<>> THEN found ELSE AuthorFromURL(url)
        published == IF page.datetime = "rfc3339" THEN "parsed" ELSE "zero"
    IN  IF http.transport # "ok"
        THEN [article |-> NoArticle, err |-> "failed to fetch URL", log |-> get]
        ELSE IF BadStatus(http.status)
        THEN [article |-> NoArticle, err |-> "bad status code", log |-> get]
        ELSE IF ~page.parses
        THEN [article |-> NoArticle, err |-> "failed to parse HTML", log |-> get]
        ELSE IF HtmlFails(page)
        THEN [article |-> NoArticle, err |-> "failed to extract content", log |-> get]
        ELSE [article |-> [Title       |-> title,
                           Author      |-> author,
                           PublishedAt |-> published,
                           Content     |-> ContentHTML(page),
                           URL         |-> url,
                           ImageURLs   |-> ContentImages(page)],
              err |-> NoError, log |-> get]

----------------------------------------------------------------------------
(* package sender (src/pkg/sender/sender.go)                                *)

\* LoadEmailConfigFromEnv: the five variables as the environment holds them
LoadEmailConfigFromEnv(environ) ==
    [From     |-> environ.EMAIL_FROM,
     To       |-> environ.EMAIL_TO,
     Password |-> environ.EMAIL_PASSWORD,
     SMTPHost |-> environ.SMTP_HOST,
     SMTPPort |-> environ.SMTP_PORT]

\* a slip that attaches the file's bytes as they are
Unencoded(data) == data

\* base64.StdEncoding of a file's bytes
Base64(data) == [base64 |-> data]

\* SendToKindle(result, config): smtp is how the relay answers SendMail
SendToKindle(result, config, smtp, disk) ==
    LET textPart == [contentType |-> "text/plain; charset=UTF-8",
                     title |-> result.Title, author |-> result.Author]
        attachment == [contentType |-> "application/octet-stream",
                       encoding |-> "base64",
                       filename |-> Base(result.FilePath),
                       data |-> Base64(disk[result.FilePath])]
        message == [from |-> config.From, to |-> config.To,
                    subject |-> result.Title, parts |-> <<textPart, attachment>>]
        send == Event("SendMail", [addr |-> <<config.SMTPHost, config.SMTPPort>>,
                                   auth |-> <<config.From, config.Password>>,
                                   from |-> config.From,
                                   to |-> <<config.To>>,
                                   msg |-> message])
    IN  IF ~Exists(disk, result.FilePath)
        THEN [err |-> "failed to open file", log |-> <<>>]
        ELSE IF disk[result.FilePath].kind = "dir"
        THEN [err |-> "failed to read file", log |-> <<>>]
        ELSE IF smtp # "ok"
        THEN [err |-> "failed to send email", log |-> <<send>>]
        ELSE [err |-> NoError, log |-> <<send>>]

----------------------------------------------------------------------------
(* package pdfconverter (src/pkg/pdfconverter/pdfconverter.go)              *)

\* DefaultOptions()
DefaultOptions ==
    [isNil |-> FALSE, SkipCalibre |-> TRUE, CustomTitle |-> <<>>,
     CustomAuthor |-> <<"P", "D", "F", " ", "C", "o", "n", "v", "e", "r", "s", "i", "o", "n">>,
     IncludeOriginalPDF |-> FALSE]

\* a nil *ConversionOptions: reading a field of it is a nil pointer dereference
NilOptions ==
    [isNil |-> TRUE, SkipCalibre |-> FALSE, CustomTitle |-> <<>>,
     CustomAuthor |-> <<>>, IncludeOriginalPDF |-> FALSE]

\* the run-time panic of a nil pointer dereference: the call does not return
Panic == "panic: nil pointer dereference"

InstallCalibre == "no alternative conversion method available; please install Calibre"

\* validatePDFFile(pdfPath): os.Stat, info.IsDir(), the .pdf suffix
validatePDFFile(pdfPath, disk) ==
    IF ~Exists(disk, pdfPath) THEN "file does not exist"
    ELSE IF disk[pdfPath].kind = "dir" THEN "path is a directory, not a file"
    ELSE IF ~HasSuffix(ToLower(Base(pdfPath)), <<".", "p", "d", "f">>)
    THEN "file does not have a .pdf extension"
    ELSE NoError

\* the text from the last dot of a file name on
RECURSIVE FileExt(_)
FileExt(name) ==
    IF ~ContainsByte(name, ".") THEN <<>>
    ELSE IF ContainsByte(Tail(name), ".") THEN FileExt(Tail(name))
    ELSE IF Head(name) = "." THEN name ELSE FileExt(Tail(name))

\* pdfconverter.sanitizeFilename: the invalid characters replaced, nothing more
pdfSanitizeFilename(name) == ReplaceEach(name, InvalidChars)

PdfTempDir == "pdf-kindle-1"

\* convertWithCalibre(inputPath, outputPath): ebook-convert input output exits
\* with status zero or it does not
convertWithCalibre(inputPath, outputPath, format, disk) ==
    LET run(exit) == <<Event("ebook-convert", [out |-> outputPath, exit |-> exit])>>
    IN  {[err |-> "ebook-convert failed", disk |-> disk, log |-> run(1)],
         [err |-> NoError,
          disk |-> WriteFile(disk, outputPath,
                      [kind |-> "book", format |-> format,
                       by |-> "ebook-convert", from |-> inputPath]),
          log |-> run(0)]}

\* extractTextFromPDF(pdfPath) as convertWithAlternative uses it: the text, or
\* the notice that stands for it when the extraction failed
extractTextFromPDF(pdfPath, disk) ==
    {<<"Failed to extract text from this PDF.">>}
        \cup (IF disk[pdfPath].kind = "pdf" THEN {disk[pdfPath].text} ELSE {})

\* convertWithAlternative(pdfPath, epubPath, title, author, includeOriginalPDF)
convertWithAlternative(pdfPath, epubPath, title, author, includeOriginalPDF, disk) ==
    LET extract == <<Event("extractTextFromPDF", pdfPath)>>
        images == IF includeOriginalPDF
                  THEN [n \in {Base(pdfPath)} |-> disk[pdfPath]]
                  ELSE EmptyMap
    IN  {[err |-> "failed to write EPUB file", disk |-> disk, log |-> extract]}
        \cup
        {[err |-> NoError,
          disk |-> WriteFile(disk, epubPath,
                      [kind |-> "book", format |-> FormatEPUB, title |-> title,
                       author |-> author, images |-> images, body |-> pdfText]),
          log |-> extract] :
            pdfText \in extractTextFromPDF(pdfPath, disk)}

\* if !calibreSuccess { convertWithAlternative(...) } and the result
PdfEpubFinish(pdfPath, result, includeOriginalPDF, calibreSuccess, disk, log) ==
    IF calibreSuccess THEN {Outcome(result, NoError, disk, log)}
    ELSE {IF alt.err # NoError
          THEN Outcome(NoResult, "failed to convert PDF to EPUB", alt.disk, log \o alt.log)
          ELSE Outcome(result, NoError, alt.disk, log \o alt.log) :
            alt \in convertWithAlternative(pdfPath, result.FilePath, result.Title,
                                           result.Author, includeOriginalPDF, disk)}

\* ConvertPDFToEPUB from the attempt with Calibre on
PdfEpubConvert(pdfPath, result, opts, disk, log) ==
    UNION {IF avail /\ ~opts.SkipCalibre
           THEN UNION {PdfEpubFinish(pdfPath, result, opts.IncludeOriginalPDF,
                                     cal.err = NoError, cal.disk,
                                     Append(log, Event("LookPath", avail)) \o cal.log) :
                        cal \in convertWithCalibre(pdfPath, result.FilePath, FormatEPUB, disk)}
           ELSE PdfEpubFinish(pdfPath, result, opts.IncludeOriginalPDF, FALSE, disk,
                              Append(log, Event("LookPath", avail))) :
            avail \in isEbookConvertAvailable}

\* ConvertPDFToEPUB(pdfPath, options)
ConvertPDFToEPUB(pdfPath, options, disk) ==
    LET opts == IF options.isNil THEN DefaultOptions ELSE options
        call == <<Event("ConvertPDFToEPUB", pdfPath)>>
        invalid == validatePDFFile(pdfPath, disk)
        tempDir == PdfTempDir
        baseName == Base(pdfPath)
        stem == pdfSanitizeFilename(TrimSuffix(baseName, FileExt(baseName)))
        result == [FilePath |-> Join(tempDir, stem \o Ext(FormatEPUB)),
                   Title    |-> IF opts.CustomTitle # <<>> THEN opts.CustomTitle ELSE stem,
                   Author   |-> opts.CustomAuthor]
    IN  IF invalid # NoError THEN {Outcome(NoResult, invalid, disk, call)}
        ELSE {Outcome(NoResult, "failed to create temp directory", disk, call)}
             \cup PdfEpubConvert(pdfPath, result, opts, MkdirTemp(disk, tempDir),
                                 Append(call, Event("MkdirTemp", tempDir)))

\* convertToAZW3 and convertToMOBI: no built-in conversion, always an error
convertToKindle(epubPath, outPath) == InstallCalibre

\* if !calibreSuccess { convertToAZW3(...) }, os.Remove(epubResult.FilePath)
\* and the result
PdfKindleFinish(e, outPath, calibreSuccess, disk, log) ==
    IF ~calibreSuccess
    THEN Outcome(NoResult, convertToKindle(e.result.FilePath, outPath), disk, log)
    ELSE Outcome([FilePath |-> outPath, Title |-> e.result.Title,
                  Author |-> e.result.Author],
                 NoError, Remove(disk, e.result.FilePath),
                 Append(log, Event("Remove", e.result.FilePath)))

\* ConvertPDFToAZW3 and ConvertPDFToMOBI after the EPUB e was made: options is
\* the caller's pointer, and reading options.SkipCalibre through a nil one
\* panics
PdfKindleConvert(e, options, format, outPath) ==
    UNION {IF ~avail
           THEN {PdfKindleFinish(e, outPath, FALSE, e.disk,
                                 Append(e.log, Event("LookPath", avail)))}
           ELSE IF options.isNil
           THEN {Outcome(NoResult, Panic, e.disk, Append(e.log, Event("LookPath", avail)))}
           ELSE IF options.SkipCalibre
           THEN {PdfKindleFinish(e, outPath, FALSE, e.disk,
                                 Append(e.log, Event("LookPath", avail)))}
           ELSE {PdfKindleFinish(e, outPath, cal.err = NoError, cal.disk,
                                 Append(e.log, Event("LookPath", avail)) \o cal.log) :
                    cal \in convertWithCalibre(e.result.FilePath, outPath, format, e.disk)} :
            avail \in isEbookConvertAvailable}

\* ConvertPDFToAZW3 and ConvertPDFToMOBI (the two differ in the format only)
ConvertPDFToKindle(pdfPath, options, format, disk) ==
    UNION {IF e.err # NoError THEN {e}
           ELSE PdfKindleConvert(e, options, format,
                    Join(Dir(e.result.FilePath),
                         TrimSuffix(Base(e.result.FilePath), Ext(FormatEPUB)) \o Ext(format))) :
            e \in ConvertPDFToEPUB(pdfPath, options, disk)}

\* ConvertPDFToEPUB, ConvertPDFToAZW3 or ConvertPDFToMOBI, by format
ConvertPDF(pdfPath, options, format, disk) ==
    IF format = FormatEPUB
    THEN ConvertPDFToEPUB(pdfPath, options, disk)
    ELSE ConvertPDFToKindle(pdfPath, options, format, disk)

----------------------------------------------------------------------------
(* Names handed to sanitizeFilename: a few arbitrary characters, one probe  *)
(* character, a filler that brings the length near the limit, and a few     *)
(* arbitrary characters again.                                              *)

\* characters (each a sequence of bytes) of the affixes
AffixChars == {<<" ">>, <<"/">>, <<"C3", "A9">>}

\* characters tried as the probe: every invalid character, a letter, white space
ProbeChars ==
    {<<InvalidChars[i]>> : i \in 1..Len(InvalidChars)}
        \cup {<<>>, <<"a">>, <<"\t">>, <<"C3", "A9">>}

RECURSIVE CharStrings(_)
CharStrings(n) ==
    IF n = 0 THEN {<<>>}
    ELSE LET shorter == CharStrings(n - 1)
         IN  shorter \cup {c \o s : c \in AffixChars, s \in shorter}

Filler(k) == [i \in 1..k |-> "a"]

FillerLens == {0, MaxFilenameLen - 3, MaxFilenameLen - 1}

SanInputs ==
    {pre \o probe \o Filler(k) \o post :
        pre \in CharStrings(MaxAffix), probe \in ProbeChars,
        k \in FillerLens, post \in CharStrings(MaxAffix)}

----------------------------------------------------------------------------
(* The inputs of the runs *)

\* -format values: the three formats, one in capitals, and two that are none
FormatUpperEPUB == <<"E", "P", "U", "B">>
FormatPDF == <<"p", "d", "f">>
Formats == {FormatEPUB, FormatAZW3, FormatMOBI}
FormatArgs == Formats \cup {FormatUpperEPUB, FormatPDF, <<>>}

\* image URLs: two with the same file name, one that extends another, one
\* that the others begin with and whose last element has no dot
ImgA == <<"/", "/", "h", "/", "a", "/", "i", ".", "p">>
ImgB == <<"/", "/", "h", "/", "b", "/", "i", ".", "p">>
ImgC == <<"/", "/", "h", "/", "b", "/", "i", ".", "p", "n">>
ImgD == <<"/", "/", "h", "/", "b">>
ImageURLSet == {ImgA, ImgB, ImgC, ImgD}

RECURSIVE SeqsUpTo(_, _)
SeqsUpTo(S, n) ==
    IF n = 0 THEN {<<>>}
    ELSE LET shorter == SeqsUpTo(S, n - 1)
         IN  shorter \cup {Append(q, x) : q \in shorter, x \in S}

ImageLists == SeqsUpTo(ImageURLSet, MaxImages)

\* article URLs: a Substack one, one of another site, none
SubstackURL ==
    <<"h", ":", "/", "/", "e", ".", "s", "u", "b", "s", "t", "a", "c", "k", ".", "c", "o",
      "m", "/", "p">>
OtherURL == <<"h", ":", "/", "/", "e", ".", "c", "o", "m", "/", "p">>
URLArgs == {SubstackURL, OtherURL, <<>>}

Title1 == <<"a", "/", "b">>
Author1 == <<"c", ":">>

\* a title in white space, no author
Title2 == <<" ", "x", "?", " ">>
Author2 == <<>>

\* the articles handed to ConvertArticle
Articles ==
    {[Title |-> Title1, Author |-> Author1, PublishedAt |-> "zero",
      Content |-> BodyMarkup(imgs), URL |-> SubstackURL, ImageURLs |-> imgs] :
        imgs \in ImageLists}
    \cup
    {[Title |-> Title2, Author |-> Author2, PublishedAt |-> "zero",
      Content |-> BodyMarkup(<<>>), URL |-> SubstackURL, ImageURLs |-> <<>>]}

\* the pages main's GET is answered with
Page(container, imgs) ==
    [parses |-> TRUE, postTitle |-> Title1, firstH1 |-> <<"H">>,
     authors |-> <<<<>>, <<>>, <<>>, <<>>>>, meta |-> [exists |-> FALSE, content |-> <<>>],
     datetime |-> "", container |-> container, html |-> BodyMarkup(imgs), imgs |-> imgs]

NoPage == Page("none", <<>>)

Pages ==
    {NoPage, [NoPage EXCEPT !.parses = FALSE]} \cup
    {Page(c, imgs) : c \in {"available-content", "available-content>body", "body"},
                     imgs \in {<<>>, <<ImgA>>, <<ImgA, ImgB>>}}

\* what the author selectors can find: nothing, white space, a name in white
\* space
AuthorTexts(name) == {<<>>, <<" ">>, <<" ", name, " ">>}

\* pages that differ in what the four author selectors and the meta tag hold
AuthorPages ==
    {[NoPage EXCEPT !.authors = <<a1, a2, a3, a4>>, !.meta = m] :
        a1 \in AuthorTexts("1"), a2 \in AuthorTexts("2"), a3 \in AuthorTexts("3"),
        a4 \in AuthorTexts("4"),
        m \in {[exists |-> FALSE, content |-> <<>>]} \cup
              {[exists |-> TRUE, content |-> c] : c \in AuthorTexts("m")}}

\* URLs handed to ScrapeSubstack: of a Substack subdomain, with a second //,
\* with a path before any dot, without a host, without //
ScrapeURLs ==
    {SubstackURL,
     <<"h", ":", "/", "/", "e", "/", "/", "x", ".", "y">>,
     <<"h", ":", "/", "/", "e", "/", "p", ".", "q">>,
     <<"h", ":", "/", "/", ".", "c">>,
     <<"e", ".", "c">>}

HttpOutcomes ==
    {[transport |-> "error", status |-> 0]} \cup
    {[transport |-> "ok", status |-> st] : st \in {200, 204, 404}}

\* what the user's disk holds before the run: PDF files, a text file, a
\* directory and a named pipe
PdfFile == [kind |-> "pdf", text |-> <<"t">>]
UserDir == "/d"
PdfLower == Join(UserDir, <<"a", ".", "p", "d", "f">>)
PdfUpper == Join(UserDir, <<"b", "|", ".", "P", "D", "F">>)
PdfText == Join(UserDir, <<"n", ".", "t", "x", "t">>)
PdfDir == Join(UserDir, <<"d", ".", "p", "d", "f">>)
PdfPipe == Join(UserDir, <<"p", ".", "p", "d", "f">>)
PdfMissing == Join(UserDir, <<"m", ".", "p", "d", "f">>)
PdfPaths == {PdfLower, PdfUpper, PdfText, PdfDir, PdfPipe, PdfMissing}

UserDisk ==
    [p \in PdfPaths \ {PdfMissing} |->
        CASE p = PdfDir -> [kind |-> "dir"]
          [] p = PdfPipe -> [kind |-> "fifo"]
          [] p = PdfText -> [kind |-> "text", text |-> <<"t">>]
          [] OTHER -> PdfFile]

OptionSet ==
    {NilOptions, DefaultOptions,
     [DefaultOptions EXCEPT !.SkipCalibre = FALSE],
     [DefaultOptions EXCEPT !.SkipCalibre = FALSE, !.CustomTitle = <<"T">>,
                            !.CustomAuthor = <<>>, !.IncludeOriginalPDF = TRUE]}

\* the .env file: complete, without the mail variables, or missing
Dotenvs ==
    {[loaded |-> TRUE, EMAIL_FROM |-> "me@mail", EMAIL_TO |-> "me@kindle",
      EMAIL_PASSWORD |-> "pw", SMTP_HOST |-> "smtp", SMTP_PORT |-> "587"],
     [loaded |-> TRUE, EMAIL_FROM |-> "", EMAIL_TO |-> "", EMAIL_PASSWORD |-> "",
      SMTP_HOST |-> "", SMTP_PORT |-> ""],
     [loaded |-> FALSE, EMAIL_FROM |-> "", EMAIL_TO |-> "", EMAIL_PASSWORD |-> "",
      SMTP_HOST |-> "", SMTP_PORT |-> ""]}

----------------------------------------------------------------------------
(* func main (src/unnamed/part_000 with the -pdf flag, src/unnamed/part_001 *)
(* without it)                                                              *)

\* strings.Contains(s, sub)
ContainsStr(s, sub) == HasSep(s, sub)

\* url.Parse(articleURL).Host for scheme://host/path
HostOf(url) ==
    IF HasSep(url, <<"/", "/">>)
    THEN BeforeFirst(AfterFirst(url, <<"/", "/">>), <<"/">>)
    ELSE <<>>

\* the check that the URL is one of a Substack site
IsSubstackHost(host) ==
    \/ HasSuffix(host, <<"s", "u", "b", "s", "t", "a", "c", "k", ".", "c", "o", "m">>)
    \/ ContainsStr(host, <<".", "s", "u", "b", "s", "t", "a", "c", "k", ".">>)

\* a slip that accepts every format
FormatErrorNone(format) == NoError

\* *format = strings.ToLower(*format); the format must be one of the three
FormatError(format) ==
    IF ToLower(format) \notin Formats
    THEN "Format must be either 'epub', 'azw3', or 'mobi'"
    ELSE NoError

\* the URL must be given and be one of a Substack site
URLError(url) ==
    IF url = <<>> THEN "Please provide a Substack article URL"
    ELSE IF ~IsSubstackHost(HostOf(url)) THEN "The URL must be from a Substack site"
    ELSE NoError

\* main up to Step 1, the first error it meets: part_000 validates the format
\* first and the URL only without -pdf, part_001 the URL and then the format
FlagError(main, a, dot) ==
    IF ~dot.loaded THEN "Error loading .env file"
    ELSE IF main = "main_000"
    THEN IF FormatError(a.format) # NoError THEN FormatError(a.format)
         ELSE IF a.pdf # NoPath THEN NoError
         ELSE URLError(a.url)
    ELSE IF URLError(a.url) # NoError THEN URLError(a.url)
         ELSE FormatError(a.format)

Mains == {"main_000", "main_001"}

InitMain ==
    /\ entry \in Mains
    /\ pc = "flags"
    /\ args \in {[typed |-> f, format |-> f, url |-> u, pdf |-> p] :
                    f \in FormatArgs, u \in URLArgs,
                    p \in IF entry = "main_000" THEN {NoPath, PdfLower, PdfText}
                                               ELSE {NoPath}}
    /\ dotenv \in Dotenvs
    /\ scraped = NoArticle

InitConvertArticle ==
    /\ entry = "ConvertArticle"
    /\ pc = "call"
    /\ scraped \in Articles
    /\ args \in {[typed |-> f, format |-> f, url |-> <<>>, pdf |-> NoPath] :
                    f \in FormatArgs}
    /\ dotenv \in {d \in Dotenvs : d.SMTP_HOST # ""}

InitConvertPDF ==
    /\ entry = "ConvertPDF"
    /\ pc = "call"
    /\ scraped = NoArticle
    /\ args \in {[typed |-> f, format |-> f, url |-> <<>>, pdf |-> p, options |-> o] :
                    f \in Formats, p \in PdfPaths, o \in OptionSet}
    /\ dotenv \in {d \in Dotenvs : d.SMTP_HOST # ""}

InitScrapeSubstack ==
    /\ entry = "ScrapeSubstack"
    /\ pc = "call"
    /\ scraped = NoArticle
    /\ args \in {[typed |-> <<>>, format |-> <<>>, url |-> u, pdf |-> NoPath] :
                    u \in ScrapeURLs}
    /\ dotenv \in {d \in Dotenvs : d.SMTP_HOST # ""}

\* the results handed to SendToKindle: of a file, of a path that does not
\* exist, of a directory
SendResults ==
    {[FilePath |-> f, Title |-> Title1, Author |-> Author1] :
        f \in {PdfLower, PdfMissing, PdfDir}}

InitSendToKindle ==
    /\ entry = "SendToKindle"
    /\ pc = "call"
    /\ scraped = NoArticle
    /\ args = [typed |-> <<>>, format |-> <<>>, url |-> <<>>, pdf |-> NoPath]
    /\ dotenv \in {d \in Dotenvs : d.SMTP_HOST # ""}
    /\ converted \in SendResults

IdleSan ==
    /\ sanIn = <<>>
    /\ sanOut = <<>>
    /\ sanPdfOut = <<>>
    /\ sanDone = FALSE

Init ==
    /\ IdleSan
    /\ \/ InitMain /\ converted = NoResult
       \/ InitConvertArticle /\ converted = NoResult
       \/ InitConvertPDF /\ converted = NoResult
       \/ InitScrapeSubstack /\ converted = NoResult
       \/ InitSendToKindle
    /\ served = [http |-> [transport |-> "none", status |-> 0], page |-> NoPage]
    /\ failure = NoError
    /\ fs = UserDisk
    /\ trace = <<>>
    /\ stages = <<>>

\* main before Step 1: the .env file, the flags
Start ==
    /\ entry \in Mains
    /\ pc = "flags"
    /\ LET e == FlagError(entry, args, dotenv)
       IN  IF e # NoError
           THEN /\ pc' = "fatal"
                /\ failure' = e
                /\ UNCHANGED args
           ELSE /\ pc' = IF args.pdf # NoPath THEN "convert" ELSE "scrape"
                /\ args' = [args EXCEPT !.format = ToLower(@)]
                /\ UNCHANGED failure
    /\ UNCHANGED <<sanVars, entry, dotenv, served, scraped, converted, fs, trace, stages>>

\* Step 1: Scrape the article
Scrape ==
    /\ pc = "scrape"
    /\ \E http \in HttpOutcomes, pg \in Pages :
        /\ (http.transport # "ok" \/ http.status # 200) => pg = NoPage
        /\ LET r == ScrapeSubstack(args.url, http, pg)
           IN  /\ served' = [http |-> http, page |-> pg]
               /\ trace' = trace \o r.log
               /\ scraped' = r.article
               /\ failure' = r.err
               /\ pc' = IF r.err # NoError THEN "fatal" ELSE "convert"
    /\ stages' = Append(stages, "Acquire")
    /\ UNCHANGED <<sanVars, entry, args, dotenv, converted, fs>>

\* what main does with the outcome of a conversion
AfterConvert(o) ==
    /\ converted' = o.result
    /\ failure' = o.err
    /\ fs' = o.disk
    /\ trace' = trace \o o.log
    /\ pc' = IF o.err = Panic THEN "panic"
             ELSE IF o.err # NoError THEN "fatal"
             ELSE "send"

\* Step 2: Convert to the specified format (an article)
Convert ==
    /\ pc = "convert"
    /\ args.pdf = NoPath
    /\ \E o \in ConvertTo(args.format, scraped, fs) :
        /\ AfterConvert(o)
        /\ scraped' = o.article
    /\ stages' = Append(stages, "Convert")
    /\ UNCHANGED <<sanVars, entry, args, dotenv, served>>

\* Convert PDF to the specified format: the file is read and converted by one
\* call.  main passes no options, which the function's signature does not
\* allow: the call is taken with nil or with the default options
ConvertLocalPDF ==
    /\ pc = "convert"
    /\ args.pdf # NoPath
    /\ \E options \in {NilOptions, DefaultOptions} :
        \E o \in ConvertPDF(args.pdf, options, args.format, fs) : AfterConvert(o)
    /\ stages' = stages \o <<"Acquire", "Convert">>
    /\ UNCHANGED <<sanVars, entry, args, dotenv, served, scraped>>

\* a slip that sends again after a delivery that failed
AfterSendRetry(sendErr) == IF sendErr # NoError THEN "send" ELSE "cleanup"

\* a slip that cleans up whether or not the mail was sent
AfterSendAlwaysCleanup(sendErr) == "cleanup"

\* if err != nil { log.Fatalf(...) } after SendToKindle
AfterSend(sendErr) == IF sendErr # NoError THEN "fatal" ELSE "cleanup"

\* Step 3: Send to Kindle
Send ==
    /\ pc = "send"
    /\ \E smtp \in {"ok", "fail"} :
        /\ dotenv.SMTP_HOST = "" => smtp = "fail"
        /\ LET r == SendToKindle(converted, LoadEmailConfigFromEnv(dotenv), smtp, fs)
           IN  /\ failure' = r.err
               /\ trace' = trace \o r.log
               /\ pc' = AfterSend(r.err)
    /\ stages' = Append(stages, "Deliver")
    /\ UNCHANGED <<sanVars, entry, args, dotenv, served, scraped, converted, fs>>

\* Clean up temporary files: os.Remove(result.FilePath)
CleanupFiles(disk, res) == Remove(disk, res.FilePath)

Cleanup ==
    /\ pc = "cleanup"
    /\ fs' = CleanupFiles(fs, converted)
    /\ trace' = Append(trace, Event("Remove", converted.FilePath))
    /\ pc' = "exit0"
    /\ stages' = Append(stages, "Cleanup")
    /\ UNCHANGED <<sanVars, entry, args, dotenv, served, scraped, converted, failure>>

\* a call of ConvertArticle(article, format) by a user of the package
CallConvertArticle ==
    /\ entry = "ConvertArticle"
    /\ pc = "call"
    /\ \E o \in ConvertArticle(scraped, args.format, fs) :
        /\ scraped' = o.article
        /\ converted' = o.result
        /\ failure' = o.err
        /\ fs' = o.disk
        /\ trace' = trace \o o.log
    /\ pc' = "returned"
    /\ UNCHANGED <<sanVars, entry, args, dotenv, served, stages>>

\* a call of ConvertPDFToEPUB, ConvertPDFToAZW3 or ConvertPDFToMOBI by a user
\* of the package
CallConvertPDF ==
    /\ entry = "ConvertPDF"
    /\ pc = "call"
    /\ \E o \in ConvertPDF(args.pdf, args.options, args.format, fs) :
        /\ converted' = o.result
        /\ failure' = o.err
        /\ fs' = o.disk
        /\ trace' = trace \o o.log
        /\ pc' = IF o.err = Panic THEN "panic" ELSE "returned"
    /\ UNCHANGED <<sanVars, entry, args, dotenv, served, scraped, stages>>

\* a call of ScrapeSubstack(url) by a user of the package
CallScrapeSubstack ==
    /\ entry = "ScrapeSubstack"
    /\ pc = "call"
    /\ \E http \in HttpOutcomes, pg \in Pages \cup AuthorPages :
        /\ (http.transport # "ok" \/ http.status # 200) => pg = NoPage
        /\ \E r \in {ScrapeSubstack(args.url, http, pg)} :
            /\ served' = [http |-> http, page |-> pg]
            /\ trace' = trace \o r.log
            /\ scraped' = r.article
            /\ failure' = r.err
    /\ pc' = "returned"
    /\ UNCHANGED <<sanVars, entry, args, dotenv, converted, fs, stages>>

\* a call of SendToKindle(result, config) by a user of the package
CallSendToKindle ==
    /\ entry = "SendToKindle"
    /\ pc = "call"
    /\ \E smtp \in {"ok", "fail"} :
        \E r \in {SendToKindle(converted, LoadEmailConfigFromEnv(dotenv), smtp, fs)} :
            /\ failure' = r.err
            /\ trace' = trace \o r.log
    /\ pc' = "returned"
    /\ UNCHANGED <<sanVars, entry, args, dotenv, served, scraped, converted, fs, stages>>

Next ==
    \/ Start
    \/ Scrape
    \/ Convert
    \/ ConvertLocalPDF
    \/ Send
    \/ Cleanup
    \/ CallConvertArticle
    \/ CallConvertPDF
    \/ CallScrapeSubstack
    \/ CallSendToKindle

Spec == Init /\ [][Next]_vars

----------------------------------------------------------------------------
(* sanitizeFilename on its own *)

IdleRun ==
    /\ entry = "sanitizeFilename"
    /\ pc = "call"
    /\ args = [typed |-> <<>>, format |-> <<>>]
    /\ dotenv = [loaded |-> FALSE]
    /\ served = [http |-> [transport |-> "none", status |-> 0], page |-> NoPage]
    /\ scraped = NoArticle
    /\ converted = NoResult
    /\ failure = NoError
    /\ fs = EmptyDisk
    /\ trace = <<>>
    /\ stages = <<>>

InitSan ==
    /\ sanIn \in SanInputs
    /\ sanOut = <<>>
    /\ sanPdfOut = <<>>
    /\ sanDone = FALSE
    /\ IdleRun

CallSanitize ==
    /\ ~sanDone
    /\ sanOut' = sanitizeFilename(sanIn)
    /\ sanPdfOut' = pdfSanitizeFilename(sanIn)
    /\ sanDone' = TRUE
    /\ UNCHANGED <<sanIn, runVars>>

NextSan == CallSanitize

SpecSan == InitSan /\ [][NextSan]_vars

----------------------------------------------------------------------------
(* C1: whatever the name, the value sanitizeFilename returns holds none of  *)
(* the characters / \ : * ? " < > | and is at most 100 bytes long.          *)
C1_SanitizeSafe ==
    sanDone =>
        /\ \A i \in 1..Len(sanOut) : sanOut[i] \notin Range(InvalidChars)
        /\ Len(sanOut) <= 100

\* a name longer than the limit that holds an invalid character has been sanitized
C1_Witness ==
    /\ sanDone
    /\ Len(sanIn) > 100
    /\ \E i \in 1..Len(sanIn) : sanIn[i] \in Range(InvalidChars)
    /\ Len(sanOut) = 100

----------------------------------------------------------------------------
(* What the claims speak about *)

\* the paths a run or a call created
Created(disk) == DOMAIN disk \ DOMAIN UserDisk

\* the e-book files among them
OutputFiles(disk) == {p \in Created(disk) : disk[p].kind = "book"}

\* whether the log holds a call of op with the given argument
Logged(log, op, arg) == \E i \in 1..Len(log) : log[i].op = op /\ log[i].arg = arg

\* the invocations of ebook-convert in the log that exited with the status
Invocations(log, exit) ==
    {i \in 1..Len(log) : log[i].op = "ebook-convert" /\ log[i].arg.exit = exit}

\* a call of ConvertArticle has returned
Returned == entry = "ConvertArticle" /\ pc = "returned"

\* a run of a main that ended before Step 1
RejectedAtOnce ==
    /\ pc \in {"flags", "fatal"}
    /\ stages = <<>>
    /\ trace = <<>>
    /\ fs = UserDisk

----------------------------------------------------------------------------
(* C2, as stated: ConvertArticle with a format outside {epub, azw3, mobi}   *)
(* returns an error, no result and no output file, and a main rejects every *)
(* format outside that set before any acquisition or conversion.            *)
C2_AsStated ==
    /\ (Returned /\ args.format \notin Formats) =>
            /\ failure # NoError
            /\ converted = NoResult
            /\ OutputFiles(fs) = {}
    /\ (entry \in Mains /\ args.typed \notin Formats) => RejectedAtOnce

(* C2, amended: ConvertArticle with a format outside {epub, azw3, mobi}     *)
(* returns an error, no result and no output file; a main rejects every     *)
(* format whose lower-case form is outside that set before any acquisition  *)
(* or conversion (the format is compared after strings.ToLower).            *)
C2_UnsupportedFormat ==
    /\ (Returned /\ args.format \notin Formats) =>
            /\ failure # NoError
            /\ converted = NoResult
            /\ OutputFiles(fs) = {}
    /\ (entry \in Mains /\ ToLower(args.typed) \notin Formats) => RejectedAtOnce

\* a main was run with -format pdf and a loaded .env, and ended on the format
C2_Witness ==
    /\ entry = "main_000"
    /\ args.typed = FormatPDF
    /\ dotenv.loaded
    /\ pc = "fatal"
    /\ failure = "Format must be either 'epub', 'azw3', or 'mobi'"

----------------------------------------------------------------------------
\* the references of the article, and those whose download failed
ImageRefs == Len(scraped.ImageURLs)

FailedDownloads ==
    Cardinality({i \in 1..Len(trace) :
                    trace[i].op = "downloadImage" /\ ~trace[i].arg.ok})

(* C3: an EPUB conversion of an article with N image references of which M  *)
(* fail to download does not fail because of the images, and the file it    *)
(* produces holds exactly N - M images.                                     *)
C3_EmbeddedImages ==
    (Returned /\ args.format = FormatEPUB /\ Exists(fs, DirPath(ConverterTempDir))) =>
        /\ failure \in {NoError, "failed to create EPUB"}
        /\ failure = NoError =>
            Cardinality(DOMAIN fs[converted.FilePath].images)
                = ImageRefs - FailedDownloads

----------------------------------------------------------------------------
\* the intermediate EPUB of a conversion of the article
IntermediateEPUB == Join(ConverterTempDir, OutputStem(scraped) \o Ext(FormatEPUB))

(* C4: when ConvertArticle returns an AZW3 or MOBI with ebook-convert        *)
(* present, the intermediate EPUB no longer exists, whether ebook-convert   *)
(* made the file or exited non-zero and the file was constructed directly.  *)
C4_IntermediateDiscarded ==
    (/\ Returned
     /\ args.format \in {FormatAZW3, FormatMOBI}
     /\ failure = NoError
     /\ Logged(trace, "LookPath", TRUE))
        => ~Exists(fs, IntermediateEPUB)

----------------------------------------------------------------------------
\* the direct constructions in the log
DirectAttempts == CountOp(trace, "createMobiFormat")

(* C5: in an AZW3 or MOBI conversion of an article ebook-convert is invoked *)
(* at most once; the direct construction runs, once, exactly when           *)
(* ebook-convert was found absent or its invocation failed; a direct        *)
(* construction that fails is returned as an error; a successful result     *)
(* carries the article's title and author.                                  *)
C5_TwoStrategies ==
    (Returned /\ args.format \in {FormatAZW3, FormatMOBI}) =>
        /\ CountOp(trace, "ebook-convert") <= 1
        /\ DirectAttempts <= 1
        /\ DirectAttempts = 1 <=>
                \/ Logged(trace, "LookPath", FALSE)
                \/ Invocations(trace, 1) # {}
        /\ (DirectAttempts = 1 /\ OutputFiles(fs) = {}) =>
                failure # NoError /\ converted = NoResult
        /\ failure = NoError =>
                /\ converted.Title = scraped.Title
                /\ converted.Author = scraped.Author
                /\ Exists(fs, converted.FilePath)
                /\ fs[converted.FilePath].format = args.format
                /\ fs[converted.FilePath].title = scraped.Title
                /\ fs[converted.FilePath].author = scraped.Author

\* ebook-convert exited non-zero, and the direct construction made the file
C5_Witness ==
    /\ Returned
    /\ args.format = FormatAZW3
    /\ Invocations(trace, 1) # {}
    /\ DirectAttempts = 1
    /\ failure = NoError
    /\ fs[converted.FilePath].by = "direct"

----------------------------------------------------------------------------
\* the stages of a run, in order
StageOrder == <<"Acquire", "Convert", "Deliver", "Cleanup">>

\* the stage the run entered last
LastStage == stages[Len(stages)]

\* the run of a main ended on a delivery that failed
DeliveryFailed ==
    /\ entry \in Mains
    /\ pc = "fatal"
    /\ stages # <<>>
    /\ LastStage = "Deliver"

\* the stages entered so far are the first of the order, and a delivery that
\* failed left the output file
StagesInOrder ==
    entry \in Mains =>
        /\ Len(stages) <= Len(StageOrder)
        /\ stages = SubSeq(StageOrder, 1, Len(stages))
        /\ DeliveryFailed => Exists(fs, converted.FilePath)

\* a step of a run that ended enters no stage, and the step that deletes the
\* output file follows a delivery that returned success
StageStep ==
    entry \in Mains =>
        /\ pc \in {"fatal", "panic"} => stages' = stages
        /\ (/\ converted # NoResult
            /\ Exists(fs, converted.FilePath)
            /\ ~Exists(fs', converted.FilePath))
            => (/\ stages = <<"Acquire", "Convert", "Deliver">>
                /\ failure = NoError
                /\ trace[Len(trace)].op = "SendMail")

(* C6: a run of a main enters the stages in the order Acquire, Convert,     *)
(* Deliver, Cleanup, none twice; after a fatal error no stage is entered;   *)
(* the output file is deleted only after a delivery that returned success,  *)
(* so that after a failed delivery it still exists.                         *)
C6_StageOrder == []StagesInOrder /\ [][StageStep]_vars

\* the relay refused the mail: the run ended, the output file is still there
C6_Witness ==
    /\ DeliveryFailed
    /\ failure = "failed to send email"
    /\ trace[Len(trace)].op = "SendMail"
    /\ Exists(fs, converted.FilePath)

----------------------------------------------------------------------------
(* C7: after a run of a main that ended with a successful delivery and the  *)
(* cleanup, nothing the run created on disk remains.                        *)
C7_NothingRemains ==
    (entry \in Mains /\ pc = "exit0") => Created(fs) = {}

----------------------------------------------------------------------------
\* what validation is to refuse: a path that does not exist, that is not a
\* regular file, or whose name does not end in .pdf in whatever case
NotAPDFFile(pdfPath) ==
    \/ ~Exists(UserDisk, pdfPath)
    \/ UserDisk[pdfPath].kind \notin {"pdf", "text"}
    \/ ~HasSuffix(ToLower(Base(pdfPath)), <<".", "p", "d", "f">>)

(* C8: ConvertPDFToEPUB, ConvertPDFToAZW3 and ConvertPDFToMOBI given a path *)
(* that does not exist, is not a regular file or lacks the .pdf extension   *)
(* return an error before any conversion step: no temporary directory is    *)
(* created, no text is extracted, ebook-convert is not invoked.             *)
C8_ValidatedFirst ==
    (entry = "ConvertPDF" /\ pc # "call" /\ NotAPDFFile(args.pdf)) =>
        /\ failure # NoError
        /\ converted = NoResult
        /\ Created(fs) = {}
        /\ CountOp(trace, "extractTextFromPDF") = 0
        /\ CountOp(trace, "ebook-convert") = 0

----------------------------------------------------------------------------
\* the PDF call made its EPUB and went on to the AZW3 or MOBI
PdfKindleStage ==
    /\ entry = "ConvertPDF"
    /\ pc # "call"
    /\ args.format \in {FormatAZW3, FormatMOBI}
    /\ Logged(trace, "ConvertPDFToEPUB", args.pdf)
    /\ failure \notin {"failed to create temp directory", "failed to convert PDF to EPUB"}
    /\ ~NotAPDFFile(args.pdf)

\* the invocations of ebook-convert that were to make the file of the format
KindleInvocations ==
    {i \in 1..Len(trace) :
        /\ trace[i].op = "ebook-convert"
        /\ HasSuffix(Base(trace[i].arg.out), Ext(args.format))}

\* what the last look for ebook-convert, the one of the AZW3 or MOBI step, found
Present ==
    LET looks == {i \in 1..Len(trace) : trace[i].op = "LookPath"}
    IN  trace[CHOOSE i \in looks : \A j \in looks : j <= i].arg

\* whether the caller's options skip Calibre (nil options stand for the default)
Skipped == IF args.options.isNil THEN DefaultOptions.SkipCalibre
           ELSE args.options.SkipCalibre

(* C9: for a PDF and the target AZW3 or MOBI, ebook-convert is tried when   *)
(* it is present and not skipped, and whenever it is absent, skipped or     *)
(* exits non-zero the call returns the error that tells to install Calibre  *)
(* and no result.                                                           *)
C9_PdfKindlePolicy ==
    PdfKindleStage =>
        /\ (Present /\ ~Skipped) => Cardinality(KindleInvocations) = 1
        /\ (~Present \/ Skipped \/ \E i \in KindleInvocations : trace[i].arg.exit # 0) =>
                /\ pc = "returned"
                /\ failure = InstallCalibre
                /\ converted = NoResult

----------------------------------------------------------------------------
\* the GET of a main was answered with a page none of whose containers the
\* content selector matches
NoContainerServed ==
    /\ entry \in Mains
    /\ args.pdf = NoPath
    /\ stages # <<>>
    /\ served.http = [transport |-> "ok", status |-> 200]
    /\ served.page.parses
    /\ served.page.container = "none"

(* C10: ScrapeSubstack on a fetched page in which no body container is      *)
(* found returns an article with an empty body and no error, and the run    *)
(* goes on to the conversion, which is given that empty body.               *)
C10_EmptyBody ==
    NoContainerServed =>
        /\ scraped # NoArticle
        /\ scraped.Content = <<>>
        /\ scraped.Title = TrimSpace(served.page.postTitle)
        /\ stages = <<"Acquire">> => (pc = "convert" /\ failure = NoError)
        /\ (/\ Len(stages) >= 2
            /\ Exists(fs, converted.FilePath)
            /\ "body" \in DOMAIN fs[converted.FilePath])
            => fs[converted.FilePath].body = <<>>

\* the article without a body was made an EPUB without a body
C10_Witness ==
    /\ NoContainerServed
    /\ args.format = FormatEPUB
    /\ stages = <<"Acquire", "Convert">>
    /\ pc = "send"
    /\ scraped.Content = <<>>
    /\ fs[converted.FilePath].body = <<>>

----------------------------------------------------------------------------
\* a call of ScrapeSubstack has returned
Scraped == entry = "ScrapeSubstack" /\ pc = "returned"

\* the GET was answered, with a status of the 2xx class
Answered2xx == served.http.transport = "ok" /\ served.http.status \in 200..299

\* the errors ScrapeSubstack returns before it parses
FetchErrors == {"failed to fetch URL", "bad status code"}

(* C11, as stated: ScrapeSubstack issues exactly one GET; a transport       *)
(* failure or a non-2xx response makes it return an error and no article;   *)
(* every 2xx response proceeds to parsing.                                  *)
C11_AsStated ==
    Scraped =>
        /\ CountOp(trace, "GET") = 1
        /\ ~Answered2xx => (failure \in FetchErrors /\ scraped = NoArticle)
        /\ Answered2xx => failure \notin FetchErrors

(* C11, amended: ScrapeSubstack issues exactly one GET; a transport failure *)
(* or a response whose status is not 200 makes it return an error and no    *)
(* article; a response with status 200 proceeds to parsing.                 *)
C11_SingleGet ==
    Scraped =>
        /\ CountOp(trace, "GET") = 1
        /\ Logged(trace, "GET", args.url)
        /\ (served.http.transport # "ok" \/ served.http.status # 200) =>
                (failure \in FetchErrors /\ scraped = NoArticle)
        /\ (served.http.transport = "ok" /\ served.http.status = 200) =>
                /\ failure \notin FetchErrors
                /\ served.page.parses <=> failure = NoError
                /\ served.page.parses <=> scraped # NoArticle

\* a response with status 204, of the 2xx class, was refused
C11_Witness ==
    /\ Scraped
    /\ served.http = [transport |-> "ok", status |-> 204]
    /\ failure = "bad status code"
    /\ scraped = NoArticle
    /\ CountOp(trace, "GET") = 1

----------------------------------------------------------------------------
\* what the five author selectors yield on the page served, in their order:
\* the trimmed text of the four elements, then the trimmed content of the
\* meta tag
AuthorCandidates ==
    [i \in 1..5 |->
        IF i <= 4 THEN TrimSpace(served.page.authors[i])
        ELSE IF served.page.meta.exists THEN TrimSpace(served.page.meta.content)
        ELSE <<>>]

\* the first of them that yields a value
AuthorHits == {i \in 1..5 : AuthorCandidates[i] # <<>>}

\* the text of the URL after "//" up to the first "." or "/"
Subdomain(url) ==
    LET rest == AfterFirst(url, <<"/", "/">>)
        stops == {i \in 1..Len(rest) : rest[i] \in {".", "/"}}
    IN  IF stops = {} THEN rest
        ELSE SubSeq(rest, 1, (CHOOSE i \in stops : \A j \in stops : i <= j) - 1)

\* a URL of the form scheme://sub.substack.com/...
OfSubstackForm(url) ==
    /\ Subdomain(url) # <<>>
    /\ LET rest == AfterFirst(url, <<"/", "/">>)
           n == Len(Subdomain(url))
       IN  /\ Len(rest) >= n + 14
           /\ SubSeq(rest, n + 1, n + 14)
                = <<".", "s", "u", "b", "s", "t", "a", "c", "k", ".", "c", "o", "m", "/">>

(* C12: the author ScrapeSubstack returns is the trimmed value of the first *)
(* selector, in the fixed order, that yields a value; when all miss it is   *)
(* the text of the URL after "//" up to the first "." or "/", which is not  *)
(* empty for a URL of the form scheme://sub.substack.com/...                *)
C12_Author ==
    (Scraped /\ failure = NoError) =>
        /\ AuthorHits # {} =>
            scraped.Author
                = AuthorCandidates[CHOOSE i \in AuthorHits : \A j \in AuthorHits : i <= j]
        /\ AuthorHits = {} => scraped.Author = Subdomain(args.url)
        /\ OfSubstackForm(args.url) => scraped.Author # <<>>

\* every selector missed, the meta tag holding white space only, and the
\* author was taken from the URL of a Substack subdomain
C12_Witness ==
    /\ Scraped
    /\ failure = NoError
    /\ AuthorHits = {}
    /\ served.page.meta = [exists |-> TRUE, content |-> <<" ">>]
    /\ OfSubstackForm(args.url)
    /\ scraped.Author = <<"e">>

----------------------------------------------------------------------------
\* the messages handed to the mail relay
Mails == {i \in 1..Len(trace) : trace[i].op = "SendMail"}

\* SendToKindle has returned: in a run of a main, or called on its own
SendReturned ==
    \/ entry \in Mains /\ Len(stages) >= 3
    \/ entry = "SendToKindle" /\ pc = "returned"

\* the errors of a file that cannot be opened or read
FileErrors == {"failed to open file", "failed to read file"}

(* C13: the message SendToKindle builds has two parts, in this order: a     *)
(* plain-text part naming the result's title and author, then an attachment *)
(* holding the base64 encoding of the output file, its filename the base    *)
(* name of the output file's path; when the file cannot be opened or read   *)
(* an error is returned and the relay is not contacted.                     *)
C13_Message ==
    SendReturned =>
        /\ \A i \in Mails :
            LET parts == trace[i].arg.msg.parts
            IN  /\ Len(parts) = 2
                /\ parts[1] = [contentType |-> "text/plain; charset=UTF-8",
                               title |-> converted.Title,
                               author |-> converted.Author]
                /\ parts[2].contentType = "application/octet-stream"
                /\ parts[2].encoding = "base64"
                /\ parts[2].filename = converted.FilePath.name
                /\ Exists(fs, converted.FilePath) =>
                        parts[2].data = [base64 |-> fs[converted.FilePath]]
        /\ (entry = "SendToKindle" /\ (~Exists(fs, converted.FilePath)
                                        \/ fs[converted.FilePath].kind = "dir")) =>
                failure \in FileErrors
        /\ failure \in FileErrors => Mails = {}

\* a converted file was attached and handed to the relay
C13_Witness ==
    /\ entry \in Mains
    /\ pc = "cleanup"
    /\ Cardinality(Mails) = 1
    /\ \E i \in Mails :
        trace[i].arg.msg.parts[2].data = [base64 |-> fs[converted.FilePath]]

----------------------------------------------------------------------------
\* at most one mail was handed to the relay, for the one configured recipient,
\* after a conversion that succeeded; a delivery that failed ended the run
OneMail ==
    entry \in Mains =>
        /\ Cardinality(Mails) <= 1
        /\ \A i \in Mails :
            /\ trace[i].arg.to = <<dotenv.EMAIL_TO>>
            /\ trace[i].arg.msg.to = dotenv.EMAIL_TO
            /\ SubSeq(stages, 1, 3) = <<"Acquire", "Convert", "Deliver">>
            /\ converted # NoResult
            /\ converted.FilePath # NoPath
            /\ \A j \in 1..Len(trace) :
                trace[j].op \in {"ConvertArticle", "ConvertPDFToEPUB"} => j < i
        /\ failure = "failed to send email" => (pc = "fatal" /\ Cardinality(Mails) = 1)

\* a run that ended hands nothing more to the relay
NoRedelivery ==
    (entry \in Mains /\ pc = "fatal") => (trace' = trace /\ pc' = pc)

(* C14: in a run at most one mail transmission is attempted, to exactly one *)
(* recipient, the configured EMAIL_TO, and only after the conversion        *)
(* succeeded; a transport or authentication failure is returned and ends    *)
(* the run, which does not attempt the delivery again.                      *)
C14_OneTransmission == []OneMail /\ [][NoRedelivery]_vars

\* the relay refused the one mail and the run ended
C14_Witness ==
    /\ entry \in Mains
    /\ pc = "fatal"
    /\ failure = "failed to send email"
    /\ Cardinality(Mails) = 1
    /\ \A i \in Mails : trace[i].arg.to = <<"me@kindle">>

----------------------------------------------------------------------------
\* a call of the PDF converter has returned a result
PdfConverted == entry = "ConvertPDF" /\ pc = "returned" /\ failure = NoError

\* the stem of the PDF's file name, as the output file is named after it
PdfStem ==
    pdfSanitizeFilename(TrimSuffix(Base(args.pdf), FileExt(Base(args.pdf))))

\* the fixed placeholder author
PlaceholderAuthor ==
    <<"P", "D", "F", " ", "C", "o", "n", "v", "e", "r", "s", "i", "o", "n">>

\* the custom title and author supplied, <<>> when none is
SuppliedTitle == IF args.options.isNil THEN <<>> ELSE args.options.CustomTitle
SuppliedAuthor == IF args.options.isNil THEN <<>> ELSE args.options.CustomAuthor

(* C15: the result of a PDF conversion has the file name's stem for title   *)
(* unless a custom title is supplied, and the placeholder "PDF Conversion"  *)
(* for author unless a custom author is supplied, also when the options     *)
(* supplied set a custom title only.                                        *)
C15_PdfTitleAuthor ==
    PdfConverted =>
        /\ converted.Title = IF SuppliedTitle # <<>> THEN SuppliedTitle ELSE PdfStem
        /\ converted.Author = IF SuppliedAuthor # <<>> THEN SuppliedAuthor
                              ELSE PlaceholderAuthor

----------------------------------------------------------------------------
\* the name the output file is to have
ExpectedName ==
    sanitizeFilename(scraped.Title) \o <<" ", "-", " ">>
        \o sanitizeFilename(scraped.Author) \o <<".">> \o args.format

(* C16: when ConvertArticle succeeds, whatever the format and the strategy, *)
(* the base name of the path it returns is sanitize(title) + " - " +        *)
(* sanitize(author) + "." + format, and the path lies in the temporary      *)
(* directory the call created.                                              *)
C16_OutputName ==
    (Returned /\ failure = NoError) =>
        /\ Base(converted.FilePath) = ExpectedName
        /\ Dir(converted.FilePath) = ConverterTempDir
        /\ Logged(trace, "MkdirTemp", Dir(converted.FilePath))
        /\ ~Exists(UserDisk, DirPath(Dir(converted.FilePath)))
        /\ Exists(fs, DirPath(Dir(converted.FilePath)))
        /\ Exists(fs, converted.FilePath)

\* ebook-convert made the AZW3 of an article whose title and author are changed
\* by sanitizing
C16_Witness ==
    /\ Returned
    /\ failure = NoError
    /\ args.format = FormatAZW3
    /\ Invocations(trace, 0) # {}
    /\ scraped.Title = Title2
    /\ Base(converted.FilePath)
        = <<"x", "_", " ", "-", " ", ".", "a", "z", "w", "3">>

----------------------------------------------------------------------------
\* a step that is a call of ConvertArticle
ConvertStep ==
    \/ entry = "ConvertArticle" /\ pc = "call" /\ pc' = "returned"
    \/ entry \in Mains /\ pc = "convert" /\ args.pdf = NoPath /\ pc' # pc

\* the call leaves every field of the record as it was
RecordKept ==
    ConvertStep =>
        /\ scraped'.Title = scraped.Title
        /\ scraped'.Author = scraped.Author
        /\ scraped'.PublishedAt = scraped.PublishedAt
        /\ scraped'.Content = scraped.Content
        /\ scraped'.URL = scraped.URL
        /\ scraped'.ImageURLs = scraped.ImageURLs

(* C17: ConvertArticle never changes the record it is given: when it        *)
(* returns, with a result or an error, whatever the format and strategy,    *)
(* the title, author, date, body, URL and image references are what they    *)
(* were before the call; the rewritten body is a copy.                      *)
C17_RecordUnchanged == [][RecordKept]_vars

\* an EPUB was made whose body was rewritten, and the record still holds the
\* body with the URL of the image
C17_Witness ==
    /\ Returned
    /\ failure = NoError
    /\ args.format = FormatEPUB
    /\ scraped.ImageURLs = <<ImgA>>
    /\ scraped.Content = BodyMarkup(<<ImgA>>)
    /\ fs[converted.FilePath].body # scraped.Content

----------------------------------------------------------------------------
\* the first n characters of a string, a character being one byte or the two
\* bytes "C3", "A9": what comes before the character numbered n + 1
TakeChars(s, n) ==
    LET starts == {i \in 1..Len(s) : s[i] # "A9"}
    IN  IF Cardinality(starts) <= n THEN s
        ELSE SubSeq(s, 1, (CHOOSE i \in starts :
                            Cardinality({j \in starts : j < i}) = n) - 1)

\* every byte of the string belongs to a whole character
WholeChars(s) ==
    \A i \in 1..Len(s) :
        /\ s[i] = "C3" => (i < Len(s) /\ s[i + 1] = "A9")
        /\ s[i] = "A9" => (i > 1 /\ s[i - 1] = "C3")

(* C18: the value of sanitizeFilename is the name with each forbidden       *)
(* character replaced by _, then trimmed of surrounding white space, then   *)
(* truncated to 100 characters; it has no leading or trailing white space   *)
(* and is not cut in the middle of a character.                             *)
C18_ReplaceTrimTruncate ==
    sanDone =>
        /\ sanOut = TakeChars(TrimSpace(ReplaceEach(sanIn, InvalidChars)), 100)
        /\ sanOut # <<>> => (~IsSpaceByte(sanOut[1]) /\ ~IsSpaceByte(sanOut[Len(sanOut)]))
        /\ WholeChars(sanOut)

----------------------------------------------------------------------------
(* C19: for every name the sanitizeFilename of the PDF converter returns    *)
(* what the sanitizeFilename of the article converter returns: forbidden    *)
(* characters replaced, white space trimmed, at most 100 bytes.             *)
C19_SharedSanitize ==
    sanDone =>
        /\ sanPdfOut = sanOut
        /\ sanPdfOut = TrimSpace(sanPdfOut)
        /\ Len(sanPdfOut) <= 100

----------------------------------------------------------------------------
\* ConvertPDFToAZW3 or ConvertPDFToMOBI was called with nil options
NilOptionsCall ==
    /\ entry = "ConvertPDF"
    /\ args.format \in {FormatAZW3, FormatMOBI}
    /\ args.options.isNil
    /\ pc # "call"

(* C20: ConvertPDFToAZW3 and ConvertPDFToMOBI called with nil options do    *)
(* what they do when called with DefaultOptions(), whether ebook-convert is *)
(* installed or not: they return a result or an error and do not fault.     *)
C20_NilOptions ==
    NilOptionsCall =>
        /\ pc = "returned"
        /\ failure # Panic
        /\ \E o \in ConvertPDF(args.pdf, DefaultOptions, args.format, UserDisk) :
            /\ o.result = converted
            /\ o.err = failure
            /\ o.disk = fs
            /\ o.log = trace

----------------------------------------------------------------------------
\* the rewritten bodies held by the e-book files a conversion left
Bodies(disk) ==
    {disk[p].body : p \in {q \in OutputFiles(disk) : "body" \in DOMAIN disk[q]}}

(* C21: two conversions of the same record in which the same downloads      *)
(* succeeded produce the same rewritten body: every outcome ConvertArticle  *)
(* can have with the log and the error value of this one leaves the bodies  *)
(* this one left, whatever the order of the replacements.                   *)
C21_RewriteDetermined ==
    Returned =>
        \A o \in ConvertArticle(scraped, args.format, UserDisk) :
            (o.log = trace /\ o.err = failure) => Bodies(o.disk) = Bodies(fs)

----------------------------------------------------------------------------
\* the URLs whose download succeeded, and the image files the disk holds
Downloaded ==
    {trace[i].arg.url : i \in {j \in 1..Len(trace) :
                                trace[j].op = "downloadImage" /\ trace[j].arg.ok}}

ImageFiles(disk) == {p \in Created(disk) : disk[p].kind = "image"}

(* C22: when a conversion returns, every URL whose download succeeded has   *)
(* a local file that holds the bytes of that URL, so downloads of distinct  *)
(* URLs are in distinct files and none was overwritten by another's.        *)
C22_DistinctFiles ==
    Returned =>
        \A u \in Downloaded : \E p \in ImageFiles(fs) : fs[p].from = u

=============================================================================
